---- MODULE Spec2Model ----
(***************************************************************************)
(* dmpipe: the plotting helpers of dmpipe/dm_plotting.py and the command   *)
(* line script dmpipe/scripts/plot_castro_dm.py.                           *)
(*                                                                         *)
(* A figure is the ordered list of the calls made on its axis.  pyplot's   *)
(* figure registry is the only state that outlives a call.  Collaborators  *)
(* (likelihood functions, castro objects, tables) are values passed in by  *)
(* the caller; each of their methods either returns an array or raises.    *)
(*                                                                         *)
(* Numbers: an x value is a rational <<num, den>>.  For plot_nll, whose x  *)
(* axis is logarithmic, the rational is the base-10 exponent of the value  *)
(* (1e-28 is <<-28, 1>>).  y values are integers.                          *)
(***************************************************************************)
EXTENDS Integers, Sequences, FiniteSets, TLC

VARIABLES
    pending,   \* the call the caller is about to make, or NoCall
    figs,      \* pyplot's figure registry: figure number -> figure
    calls,     \* the calls made so far, with their outcome
    mpc,       \* plot_castro_dm.main: position in main()
    margs,     \* plot_castro_dm.main: the parsed arguments
    tab_m,     \* plot_castro_dm.main: the MASSES table, once read
    tab_s,     \* plot_castro_dm.main: the channel table, once read
    dm_castro, \* plot_castro_dm.main: the DMCastroData object, once built
    dm_plot,   \* plot_castro_dm.main: the result of plot_dm_castro
    saved,     \* the savefig calls made: <<figure number, path>>
    mret       \* plot_castro_dm.main: what main returned

libvars == <<pending, figs, calls>>
mainvars == <<mpc, margs, tab_m, tab_s, dm_castro, dm_plot, saved, mret>>
vars == <<pending, figs, calls, mpc, margs, tab_m, tab_s, dm_castro, dm_plot, saved, mret>>

----------------------------------------------------------------------------
(* Bounds of the model *)

MaxEntries == 2     \* entries of a dictionary argument
MaxNstep == 3       \* largest explicit nstep argument
MaxCalls == 3       \* calls in a session

----------------------------------------------------------------------------
(* Python values *)

None == [given |-> FALSE]
Some(v) == [given |-> TRUE, v |-> v]

Returned(v) == [ok |-> TRUE, v |-> v]
Raised(e) == [ok |-> FALSE, exc |-> e]

Abs(n) == IF n < 0 THEN -n ELSE n

Last(s) == s[Len(s)]

\* the smallest and the largest element of a non-empty array
SeqMin(s) == CHOOSE m \in {s[i] : i \in 1..Len(s)} : \A i \in 1..Len(s) : m <= s[i]

SeqMax(s) == CHOOSE m \in {s[i] : i \in 1..Len(s)} : \A i \in 1..Len(s) : m >= s[i]

\* ndarray.min(): ValueError on a zero-size array
ArrayMin(a) == IF Len(a) = 0 THEN Raised("ValueError") ELSE Returned(SeqMin(a))

ArrayMax(a) == IF Len(a) = 0 THEN Raised("ValueError") ELSE Returned(SeqMax(a))

\* equality of two rationals
RatEq(a, b) == a[1] * b[2] = b[1] * a[2]

RatLeq(a, b) == a[1] * b[2] <= b[1] * a[2]

\* np.linspace(lo, hi, n) for rationals lo, hi: n evenly spaced points, both
\* ends included; the single point lo when n = 1.
Linspace(lo, hi, n) ==
    IF n = 1 THEN <<lo>>
    ELSE [i \in 1..n |->
            <<lo[1] * hi[2] * (n - 1) + (i - 1) * (hi[1] * lo[2] - lo[1] * hi[2]),
              lo[2] * hi[2] * (n - 1)>>]

\* np.logspace(np.log10(xmin), np.log10(xmax), n): a value is held as its
\* base-10 exponent, so the points are evenly spaced exponents.
Log10(x) == x.exp10

Pow10(e) == [exp10 |-> e]

Logspace(lo, hi, n) == [i \in 1..n |-> Pow10(Linspace(lo, hi, n)[i])]

UpperChars == <<"A", "B", "C", "D", "E", "F", "G", "H", "I", "J", "K", "L", "M",
                "N", "O", "P", "Q", "R", "S", "T", "U", "V", "W", "X", "Y", "Z">>

LowerChars == <<"a", "b", "c", "d", "e", "f", "g", "h", "i", "j", "k", "l", "m",
                "n", "o", "p", "q", "r", "s", "t", "u", "v", "w", "x", "y", "z">>

LowerChar(c) ==
    IF \E i \in 1..Len(UpperChars) : UpperChars[i] = c
    THEN LowerChars[CHOOSE i \in 1..Len(UpperChars) : UpperChars[i] = c]
    ELSE c

\* str.lower(); a string is the sequence of its characters
Lower(s) == [i \in 1..Len(s) |-> LowerChar(s[i])]

STACKED == <<"s", "t", "a", "c", "k", "e", "d">>

\* the comparison without lower()
IsStackedKey_exact(key) == key = STACKED

IsStackedKey(key) == Lower(key) = STACKED

----------------------------------------------------------------------------
(* pyplot and the axis *)

\* plt.figure(): a new, empty figure is added to the registry
plt_figure(fs) == [figs |-> Append(fs, [ops |-> <<>>]), num |-> Len(fs) + 1]

AxisCall(name, v) == [op |-> name, v |-> v]

\* axis.plot(xvals, yvals, ..., lw=, label=): ValueError when the shapes differ
PlotCall(xvals, yvals, fmt, lw, label) ==
    [op |-> "plot", x |-> xvals, y |-> yvals, fmt |-> fmt, lw |-> lw, label |-> label]

axis_plot(ops, xvals, yvals, fmt, lw, label) ==
    IF Len(xvals) # Len(yvals) THEN [ok |-> FALSE, exc |-> "ValueError", ops |-> ops]
    ELSE [ok |-> TRUE, ops |-> Append(ops, PlotCall(xvals, yvals, fmt, lw, label))]

LegendCall(loc, fontsize, ncol) ==
    [op |-> "legend", loc |-> loc, fontsize |-> fontsize, ncol |-> ncol]

\* what a plotting function leaves behind: the registry, and its return
\* value (figure number and third element) or the exception it ended with
Completed(fs, num, ops, third) ==
    [figs |-> [fs EXCEPT ![num].ops = ops], ok |-> TRUE, fig |-> num,
     ret |-> Some([fig |-> num, third |-> third]), exc |-> "none"]

Failed(fs, num, ops, exc) ==
    [figs |-> IF num = 0 THEN fs ELSE [fs EXCEPT ![num].ops = ops],
     ok |-> FALSE, fig |-> num, ret |-> None, exc |-> exc]

----------------------------------------------------------------------------
(* Collaborators *)

\* A likelihood function (LnLFn): interp(xvals) returns one value per point
\* or raises.  "vee" has its minimum at the pivot, "ramp" grows with x.
InterpAt(nll, x) ==
    CASE nll.kind = "vee" ->
            (Abs(x[1] - nll.pivot * x[2]) * nll.scale) \div x[2] + nll.floor
      [] nll.kind = "ramp" ->
            ((x[1] - nll.pivot * x[2]) * nll.scale) \div x[2] + nll.floor

Interp(nll, xvals) ==
    IF nll.kind = "raise" THEN Raised("InterpError")
    ELSE Returned([i \in 1..Len(xvals) |-> InterpAt(nll, xvals[i])])

\* the same on a logarithmic grid: the function of the exponent
InterpLog(nll, xvals) == Interp(nll, [i \in 1..Len(xvals) |-> Log10(xvals[i])])

\* A castro object (CastroData, DMCastroData): masses, one LnLFn per bin
\* (obj[ibin]) and getLimits(alpha).  alpha is held in percent (0.05 is 5).
\* getLimits returns one limit per mass ("per_mass"), one per interval
\* between masses ("per_bin"), or raises.
GetItem(obj, ibin) ==
    IF ibin + 1 \in 1..Len(obj.bins) THEN Returned(obj.bins[ibin + 1])
    ELSE Raised("IndexError")

GetLimits(obj, alpha) ==
    CASE obj.lim = "raise" -> Raised("LimitError")
      [] obj.lim = "per_mass" ->
            Returned([i \in 1..Len(obj.masses) |-> obj.base * (100 - alpha) + i])
      [] obj.lim = "per_bin" ->
            Returned([i \in 1..(Len(obj.masses) - 1) |-> obj.base * (100 - alpha) + i])

\* np.sqrt on the products of neighbouring masses; the masses of the model
\* are powers of 4, so every product is a perfect square
Sqrt(n) == CHOOSE r \in 0..n : r * r = n

GeomCentres(xbins) == [i \in 1..(Len(xbins) - 1) |-> Sqrt(xbins[i] * xbins[i + 1])]

----------------------------------------------------------------------------
(* dm_plotting.plot_castro_nuiscance *)

NuisanceDefaultZmin == 0
NuisanceDefaultZmax == 10

plot_castro_nuiscance(fs, a) ==
    LET f == plt_figure(fs)
        ops0 == f.figs[f.num].ops
        zmin == IF ~a.zlims.given THEN NuisanceDefaultZmin ELSE a.zlims.v[1]
        zmax == IF ~a.zlims.given THEN NuisanceDefaultZmax ELSE a.zlims.v[2]
        ops1 == ops0 \o << AxisCall("set_yscale", "log"),
                           AxisCall("set_xlim", a.xlims),
                           AxisCall("set_ylim", a.ylims),
                           AxisCall("set_xlabel", "dJ/J"),
                           AxisCall("set_ylabel", "sigmav"),
                           [op |-> "imshow", z |-> a.zvals,
                            extent |-> <<a.xlims[1], Last(a.xlims), a.ylims[1], Last(a.ylims)>>,
                            vmin |-> zmin, vmax |-> zmax] >>
    IN  Completed(f.figs, f.num, ops1, "image")

----------------------------------------------------------------------------
(* dm_plotting.plot_nll *)

NllDefaultNstep == 50
NllDefaultXminExp == -28
NllDefaultXmaxExp == -24

\* the loop body without  yvals -= yvals.min()
plot_nll_body_unshifted(ops, item, xvals) ==
    LET r == InterpLog(item[2], xvals) IN
    IF ~r.ok THEN [ok |-> FALSE, exc |-> r.exc, ops |-> ops]
    ELSE axis_plot(ops, xvals, r.v, None, None, Some(item[1]))

\* one pass of the loop of plot_nll over an item <<lab, nll>>
plot_nll_body(ops, item, xvals) ==
    LET r == InterpLog(item[2], xvals) IN
    IF ~r.ok THEN [ok |-> FALSE, exc |-> r.exc, ops |-> ops]
    ELSE LET m == ArrayMin(r.v) IN
         IF ~m.ok THEN [ok |-> FALSE, exc |-> m.exc, ops |-> ops]
         ELSE axis_plot(ops, xvals, [i \in 1..Len(r.v) |-> r.v[i] - m.v],
                        None, None, Some(item[1]))

\* the loop with the body in a try/except that goes on to the next entry
RECURSIVE plot_nll_loop_skipping(_, _, _, _)
plot_nll_loop_skipping(items, i, xvals, ops) ==
    IF i > Len(items) THEN [ok |-> TRUE, ops |-> ops]
    ELSE LET r == plot_nll_body(ops, items[i], xvals) IN
         plot_nll_loop_skipping(items, i + 1, xvals, r.ops)

RECURSIVE plot_nll_loop(_, _, _, _)
plot_nll_loop(items, i, xvals, ops) ==
    IF i > Len(items) THEN [ok |-> TRUE, ops |-> ops]
    ELSE LET r == plot_nll_body(ops, items[i], xvals) IN
         IF r.ok THEN plot_nll_loop(items, i + 1, xvals, r.ops) ELSE r

plot_nll_xvals(a) ==
    LET xmin == IF ~a.xlims.given THEN Pow10(<<NllDefaultXminExp, 1>>) ELSE a.xlims.v[1]
        xmax == IF ~a.xlims.given THEN Pow10(<<NllDefaultXmaxExp, 1>>) ELSE a.xlims.v[2]
        nstep == IF a.nstep.given THEN a.nstep.v ELSE NllDefaultNstep
    IN  [xmin |-> xmin, xmax |-> xmax,
         xvals |-> Logspace(Log10(xmin), Log10(xmax), nstep)]

plot_nll(fs, a) ==
    LET g == plot_nll_xvals(a)
        f == plt_figure(fs)
        ops0 == f.figs[f.num].ops
        ops1 == Append(ops0, AxisCall("set_xlim", <<g.xmin, g.xmax>>))
        ops2 == IF a.ylims.given
                THEN Append(ops1, AxisCall("set_ylim", <<a.ylims.v[1], a.ylims.v[2]>>))
                ELSE ops1
        ops3 == ops2 \o << AxisCall("set_xlabel", "sigmav"),
                           AxisCall("set_ylabel", "delta logL"),
                           AxisCall("set_xscale", "log") >>
        loop == plot_nll_loop(a.nll_dict, 1, g.xvals, ops3)
    IN  IF ~loop.ok THEN Failed(f.figs, f.num, loop.ops, loop.exc)
        ELSE Completed(f.figs, f.num,
                       Append(loop.ops, LegendCall("upper left", None, None)), "legend")

----------------------------------------------------------------------------
(* dm_plotting.plot_comparison *)

ComparisonDefaultNstep == 25

\* min(a, b, c, 0.) and max(a, b, c, 0.5) as rationals
ComparisonYmin(y0, y1, y2) ==
    LET m == SeqMin(<<y0, y1, y2, 0>>) IN <<m, 1>>

ComparisonYmax(y0, y1, y2) ==
    LET m == SeqMax(<<y0, y1, y2>>) IN IF m >= 1 THEN <<m, 1>> ELSE <<1, 2>>

plot_comparison(fs, a) ==
    LET xmin == IF ~a.xlims.given THEN a.nll.xmin ELSE a.xlims.v[1]
        xmax == IF ~a.xlims.given THEN a.nll.xmax ELSE a.xlims.v[2]
        nstep == IF a.nstep.given THEN a.nstep.v ELSE ComparisonDefaultNstep
        xvals == Linspace(xmin, xmax, nstep)
        y0 == Interp(a.nll.straight, xvals)
        y1 == Interp(a.nll.profile, xvals)
        y2 == Interp(a.nll.marginal, xvals)
    IN  IF ~y0.ok THEN Failed(fs, 0, <<>>, y0.exc)
        ELSE IF ~y1.ok THEN Failed(fs, 0, <<>>, y1.exc)
        ELSE IF ~y2.ok THEN Failed(fs, 0, <<>>, y2.exc)
        ELSE IF ~ArrayMin(y0.v).ok THEN Failed(fs, 0, <<>>, ArrayMin(y0.v).exc)
        ELSE
        LET ymin == ComparisonYmin(ArrayMin(y0.v).v, ArrayMin(y1.v).v, ArrayMin(y2.v).v)
            ymax == ComparisonYmax(ArrayMax(y0.v).v, ArrayMax(y1.v).v, ArrayMax(y2.v).v)
            f == plt_figure(fs)
            ops0 == f.figs[f.num].ops
            ops1 == ops0 \o << AxisCall("set_xlim", <<xmin, xmax>>),
                               AxisCall("set_ylim", <<ymin, ymax>>),
                               AxisCall("set_xlabel", "sigmav"),
                               AxisCall("set_ylabel", "delta logL") >>
            p0 == axis_plot(ops1, xvals, y0.v, Some("r"), None, Some("Simple logL"))
            p1 == axis_plot(p0.ops, xvals, y1.v, Some("g"), None, Some("Profile logL"))
        IN  Completed(f.figs, f.num,
                      Append(p1.ops, LegendCall("upper left", None, None)), "legend")

----------------------------------------------------------------------------
(* dm_plotting.plot_stacked *)

StackedDefaultIbin == 0
StackedNstep == 100

\* the first loop: ndict[key] = val[ibin], in the order of sdict
RECURSIVE plot_stacked_select(_, _, _, _)
plot_stacked_select(items, i, ibin, ndict) ==
    IF i > Len(items) THEN Returned(ndict)
    ELSE LET r == GetItem(items[i][2], ibin) IN
         IF r.ok THEN plot_stacked_select(items, i + 1, ibin, Append(ndict, <<items[i][1], r.v>>))
         ELSE r

\* the loop body that shifts every curve, the stacked one too
plot_stacked_body_all_shifted(ops, item, xvals) ==
    LET r == Interp(item[2], xvals) IN
    IF ~r.ok THEN [ok |-> FALSE, exc |-> r.exc, ops |-> ops]
    ELSE LET m == ArrayMin(r.v) IN
         IF ~m.ok THEN [ok |-> FALSE, exc |-> m.exc, ops |-> ops]
         ELSE axis_plot(ops, xvals, [i \in 1..Len(r.v) |-> r.v[i] - m.v], None,
                        IF IsStackedKey(item[1]) THEN Some(3) ELSE None, Some(item[1]))

\* one pass of the second loop over an item <<key, val>> of ndict
plot_stacked_body(ops, item, xvals) ==
    LET r == Interp(item[2], xvals) IN
    IF ~r.ok THEN [ok |-> FALSE, exc |-> r.exc, ops |-> ops]
    ELSE IF IsStackedKey(item[1])
         THEN axis_plot(ops, xvals, r.v, None, Some(3), Some(item[1]))
         ELSE LET m == ArrayMin(r.v) IN
              IF ~m.ok THEN [ok |-> FALSE, exc |-> m.exc, ops |-> ops]
              ELSE axis_plot(ops, xvals, [i \in 1..Len(r.v) |-> r.v[i] - m.v],
                             None, None, Some(item[1]))

RECURSIVE plot_stacked_loop(_, _, _, _)
plot_stacked_loop(items, i, xvals, ops) ==
    IF i > Len(items) THEN [ok |-> TRUE, ops |-> ops]
    ELSE LET r == plot_stacked_body(ops, items[i], xvals) IN
         IF r.ok THEN plot_stacked_loop(items, i + 1, xvals, r.ops) ELSE r

plot_stacked(fs, a) ==
    LET ibin == IF a.ibin.given THEN a.ibin.v ELSE StackedDefaultIbin
        ndict == plot_stacked_select(a.sdict, 1, ibin, <<>>)
    IN  IF ~ndict.ok THEN Failed(fs, 0, <<>>, ndict.exc)
        ELSE
        LET f == plt_figure(fs)
            ops0 == f.figs[f.num].ops
            xvals == Linspace(a.xlims[1], Last(a.xlims), StackedNstep)
            ops1 == ops0 \o << AxisCall("set_xlim", <<xvals[1], Last(xvals)>>),
                               AxisCall("set_xlabel", "sigmav"),
                               AxisCall("set_ylabel", "delta logL") >>
            loop == plot_stacked_loop(ndict.v, 1, xvals, ops1)
        IN  IF ~loop.ok THEN Failed(f.figs, f.num, loop.ops, loop.exc)
            ELSE Completed(f.figs, f.num,
                           Append(loop.ops, LegendCall("upper left", Some(10), Some(2))),
                           "legend")

----------------------------------------------------------------------------
(* dm_plotting.plot_limits, compare_limits, plot_limit *)

DefaultAlpha == 5

\* one pass of the loop of plot_limits over an item <<key, val>>
plot_limits_body(ops, item, alpha) ==
    LET xvals == item[2].masses
        r == GetLimits(item[2], alpha)
    IN  IF ~r.ok THEN [ok |-> FALSE, exc |-> r.exc, ops |-> ops]
        ELSE IF IsStackedKey(item[1])
             THEN axis_plot(ops, xvals, r.v, None, Some(3), Some(item[1]))
             ELSE axis_plot(ops, xvals, r.v, None, None, Some(item[1]))

RECURSIVE plot_limits_loop(_, _, _, _)
plot_limits_loop(items, i, alpha, ops) ==
    IF i > Len(items) THEN [ok |-> TRUE, ops |-> ops]
    ELSE LET r == plot_limits_body(ops, items[i], alpha) IN
         IF r.ok THEN plot_limits_loop(items, i + 1, alpha, r.ops) ELSE r

\* alpha kept in a module-level variable: the value of the last call that
\* passed one stands in for the default
plot_limits_alpha_remembered(a) ==
    IF a.alpha.given THEN a.alpha.v
    ELSE IF \E i \in 1..Len(calls) :
                calls[i].fn = "plot_limits" /\ calls[i].args.alpha.given
         THEN LET i == CHOOSE i \in 1..Len(calls) :
                        /\ calls[i].fn = "plot_limits" /\ calls[i].args.alpha.given
                        /\ \A j \in 1..Len(calls) :
                                (calls[j].fn = "plot_limits" /\ calls[j].args.alpha.given)
                                    => j <= i
              IN  calls[i].args.alpha.v
         ELSE DefaultAlpha

\* the alpha a function works with: the caller's, or the default
plot_limits_alpha(a) == IF a.alpha.given THEN a.alpha.v ELSE DefaultAlpha

\* the same without the call of axis.legend
plot_limits_draw_no_legend(ops, a) ==
    plot_limits_loop(a.sdict, 1, plot_limits_alpha(a), ops)

\* the statements of plot_limits after the axis is configured
plot_limits_draw(ops, a) ==
    LET loop == plot_limits_loop(a.sdict, 1, plot_limits_alpha(a), ops) IN
    IF ~loop.ok THEN loop
    ELSE [ok |-> TRUE, ops |-> Append(loop.ops, LegendCall("upper left", None, None))]

plot_limits(fs, a) ==
    LET f == plt_figure(fs)
        ops0 == f.figs[f.num].ops
        ops1 == ops0 \o << AxisCall("set_xlabel", "mchi"),
                           AxisCall("set_ylabel", "sigmav"),
                           AxisCall("set_xscale", "log"),
                           AxisCall("set_yscale", "log"),
                           AxisCall("set_xlim", <<a.xlims[1], a.xlims[2]>>),
                           AxisCall("set_ylim", <<a.ylims[1], a.ylims[2]>>) >>
        r == plot_limits_draw(ops1, a)
    IN  IF ~r.ok THEN Failed(f.figs, f.num, r.ops, r.exc)
        ELSE Completed(f.figs, f.num, r.ops, "legend")

\* one pass of the loop of compare_limits
compare_limits_body(ops, item, alpha) ==
    LET xvals == item[2].masses
        r == GetLimits(item[2], alpha)
    IN  IF ~r.ok THEN [ok |-> FALSE, exc |-> r.exc, ops |-> ops]
        ELSE axis_plot(ops, xvals, r.v, None, None, Some(item[1]))

RECURSIVE compare_limits_loop(_, _, _, _)
compare_limits_loop(items, i, alpha, ops) ==
    IF i > Len(items) THEN [ok |-> TRUE, ops |-> ops]
    ELSE LET r == compare_limits_body(ops, items[i], alpha) IN
         IF r.ok THEN compare_limits_loop(items, i + 1, alpha, r.ops) ELSE r

compare_limits(fs, a) ==
    LET f == plt_figure(fs)
        ops0 == f.figs[f.num].ops
        alpha == IF a.alpha.given THEN a.alpha.v ELSE DefaultAlpha
        ops1 == ops0 \o << AxisCall("set_xscale", "log"),
                           AxisCall("set_yscale", "log"),
                           AxisCall("set_xlim", <<a.xlims[1], a.xlims[2]>>),
                           AxisCall("set_ylim", <<a.ylims[1], a.ylims[2]>>) >>
        loop == compare_limits_loop(a.sdict, 1, alpha, ops1)
    IN  IF ~loop.ok THEN Failed(f.figs, f.num, loop.ops, loop.exc)
        ELSE Completed(f.figs, f.num,
                       Append(loop.ops, LegendCall("upper left", Some(10), Some(2))),
                       "legend")

\* yvals = getLimits(alpha), then the choice of xvals and the plot
plot_limit_draw(ops, obj, alpha) ==
    LET xbins == obj.masses
        r == GetLimits(obj, alpha)
    IN  IF ~r.ok THEN [ok |-> FALSE, exc |-> r.exc, ops |-> ops]
        ELSE LET xvals == IF Len(r.v) = Len(xbins) THEN xbins ELSE GeomCentres(xbins)
             IN  axis_plot(ops, xvals, r.v, None, None, None)

plot_limit(fs, a) ==
    LET xbins == a.dm_castro_data.masses
        alpha == IF a.alpha.given THEN a.alpha.v ELSE DefaultAlpha
    IN  IF Len(xbins) = 0 THEN Failed(fs, 0, <<>>, "IndexError")
        ELSE
        LET xmin == xbins[1]
            xmax == Last(xbins)
            f == plt_figure(fs)
            ops0 == f.figs[f.num].ops
            ops1 == ops0 \o << AxisCall("set_xscale", "log"),
                               AxisCall("set_yscale", "log"),
                               AxisCall("set_xlim", <<xmin, xmax>>) >>
            ops2 == IF a.ylims.given
                    THEN Append(ops1, AxisCall("set_ylim", <<a.ylims.v[1], a.ylims.v[2]>>))
                    ELSE ops1
            r == plot_limit_draw(ops2, a.dm_castro_data, alpha)
        IN  IF ~r.ok THEN Failed(f.figs, f.num, r.ops, r.exc)
            ELSE Completed(f.figs, f.num, r.ops, "none")

----------------------------------------------------------------------------
(* The arguments callers pass *)

KeyDraco == <<"d", "r", "a", "c", "o">>
KeyCapStacked == <<"S", "t", "a", "c", "k", "e", "d">>
Keys == {STACKED, KeyCapStacked, KeyDraco}

Vee(p) == [kind |-> "vee", pivot |-> p, floor |-> 3, scale |-> 4]
Ramp == [kind |-> "ramp", pivot |-> -27, floor |-> -2, scale |-> 4]
Broken == [kind |-> "raise", pivot |-> 0, floor |-> 0, scale |-> 1]
LnLFns == {Vee(-26), Ramp, Broken}

CastroA == [masses |-> <<1, 4, 16>>, bins |-> <<Vee(2), Ramp>>, lim |-> "per_mass", base |-> 2]
CastroB == [masses |-> <<4, 16>>, bins |-> <<Ramp>>, lim |-> "per_bin", base |-> 3]
CastroBad == [masses |-> <<1, 4>>, bins |-> <<Broken, Vee(2)>>, lim |-> "raise", base |-> 1]
CastroEmpty == [masses |-> <<>>, bins |-> <<>>, lim |-> "per_mass", base |-> 1]
Castros == {CastroA, CastroB, CastroBad}

\* a dict: its items in iteration order, no key twice
Dicts(Vals) ==
    UNION { { d \in [1..n -> Keys \X Vals] :
                \A i, j \in 1..n : i # j => d[i][1] # d[j][1] } : n \in 0..MaxEntries }

OptNsteps == {None} \cup {Some(n) : n \in 0..MaxNstep}
OptAlphas == {None, Some(5), Some(32)}
OptYlims == {None, Some(<<1, 100>>)}

Request(fn, a) == [fn |-> fn, args |-> a]
NoCall == [fn |-> "none"]

NuisanceRequests ==
    { Request("plot_castro_nuiscance",
              [xlims |-> <<7, 13>>, ylims |-> <<1, 100>>, zvals |-> z, zlims |-> zl]) :
        z \in {<<<<0, 5>>, <<9, 30>>>>, <<<<1>>>>}, zl \in {None, Some(<<0, 30>>)} }

NllRequests ==
    { Request("plot_nll", [nll_dict |-> d, xlims |-> x, nstep |-> n, ylims |-> y]) :
        d \in Dicts(LnLFns),
        x \in {None, Some(<<Pow10(<<-27, 1>>), Pow10(<<-25, 1>>)>>)},
        n \in OptNsteps, y \in OptYlims }

Profiled == [xmin |-> <<0, 1>>, xmax |-> <<4, 1>>,
             straight |-> Vee(2), profile |-> Ramp, marginal |-> Vee(1)]
ProfiledBad == [xmin |-> <<0, 1>>, xmax |-> <<4, 1>>,
                straight |-> Vee(2), profile |-> Broken, marginal |-> Vee(1)]

ComparisonRequests ==
    { Request("plot_comparison", [nll |-> f, nstep |-> n, xlims |-> x]) :
        f \in {Profiled, ProfiledBad}, n \in OptNsteps,
        x \in {None, Some(<<<<0, 1>>, <<3, 1>>>>)} }

StackedRequests ==
    { Request("plot_stacked", [sdict |-> d, xlims |-> x, ibin |-> b]) :
        d \in Dicts(Castros),
        x \in {<<<<0, 1>>, <<4, 1>>>>, <<<<0, 1>>, <<2, 1>>, <<5, 1>>>>},
        b \in {None, Some(0), Some(1)} }

LimitsRequests ==
    { Request("plot_limits", [sdict |-> d, xlims |-> <<1, 16>>, ylims |-> <<1, 1000>>,
                              alpha |-> al]) :
        d \in Dicts(Castros), al \in OptAlphas }

CompareRequests ==
    { Request("compare_limits", [sdict |-> d, xlims |-> <<1, 16>>, ylims |-> <<1, 1000>>,
                                 alpha |-> al]) :
        d \in Dicts(Castros), al \in OptAlphas }

LimitRequests ==
    { Request("plot_limit", [dm_castro_data |-> c, ylims |-> y, alpha |-> al]) :
        c \in Castros \cup {CastroEmpty}, y \in OptYlims, al \in OptAlphas }

Requests ==
    NuisanceRequests \cup NllRequests \cup ComparisonRequests \cup StackedRequests
        \cup LimitsRequests \cup CompareRequests \cup LimitRequests

\* the requests of a session: a few of each function
NllPair == << <<KeyDraco, Vee(-26)>>, <<STACKED, Ramp>> >>
CastroPair == << <<KeyCapStacked, CastroA>>, <<KeyDraco, CastroA>> >>

SessionRequests ==
    { Request("plot_nll", [nll_dict |-> NllPair, xlims |-> None, nstep |-> Some(2),
                           ylims |-> None]),
      Request("plot_nll", [nll_dict |-> << <<KeyDraco, Broken>> >>, xlims |-> None,
                           nstep |-> Some(2), ylims |-> None]),
      Request("plot_comparison", [nll |-> Profiled, nstep |-> Some(3), xlims |-> None]),
      Request("plot_stacked", [sdict |-> CastroPair, xlims |-> <<<<0, 1>>, <<4, 1>>>>,
                               ibin |-> None]),
      Request("plot_limits", [sdict |-> CastroPair, xlims |-> <<1, 16>>,
                              ylims |-> <<1, 1000>>, alpha |-> None]),
      Request("plot_limits", [sdict |-> CastroPair, xlims |-> <<1, 16>>,
                              ylims |-> <<1, 1000>>, alpha |-> Some(32)]),
      Request("compare_limits", [sdict |-> CastroPair, xlims |-> <<1, 16>>,
                                 ylims |-> <<1, 1000>>, alpha |-> None]),
      Request("plot_limit", [dm_castro_data |-> CastroB, ylims |-> None, alpha |-> None]),
      Request("plot_castro_nuiscance", [xlims |-> <<7, 13>>, ylims |-> <<1, 100>>,
                                        zvals |-> <<<<1>>>>, zlims |-> None]) }

----------------------------------------------------------------------------
(* A call: the function runs to its end, normal or not *)

MainIdle ==
    /\ mpc = "idle" /\ margs = None /\ tab_m = None /\ tab_s = None
    /\ dm_castro = None /\ dm_plot = None /\ saved = <<>> /\ mret = None

Finish(r) ==
    /\ figs' = r.figs
    /\ calls' = Append(calls, [fn |-> pending.fn, args |-> pending.args, ok |-> r.ok,
                               exc |-> r.exc, fig |-> r.fig, ret |-> r.ret,
                               before |-> Len(figs)])
    /\ pending' = NoCall
    /\ UNCHANGED mainvars

Call_plot_castro_nuiscance ==
    /\ pending.fn = "plot_castro_nuiscance"
    /\ Finish(plot_castro_nuiscance(figs, pending.args))

Call_plot_nll ==
    /\ pending.fn = "plot_nll"
    /\ Finish(plot_nll(figs, pending.args))

Call_plot_comparison ==
    /\ pending.fn = "plot_comparison"
    /\ Finish(plot_comparison(figs, pending.args))

Call_plot_stacked ==
    /\ pending.fn = "plot_stacked"
    /\ Finish(plot_stacked(figs, pending.args))

Call_plot_limits ==
    /\ pending.fn = "plot_limits"
    /\ Finish(plot_limits(figs, pending.args))

Call_compare_limits ==
    /\ pending.fn = "compare_limits"
    /\ Finish(compare_limits(figs, pending.args))

Call_plot_limit ==
    /\ pending.fn = "plot_limit"
    /\ Finish(plot_limit(figs, pending.args))

Call ==
    \/ Call_plot_castro_nuiscance
    \/ Call_plot_nll
    \/ Call_plot_comparison
    \/ Call_plot_stacked
    \/ Call_plot_limits
    \/ Call_compare_limits
    \/ Call_plot_limit

\* one call of one plotting function, on any of the arguments
Init ==
    /\ pending \in Requests
    /\ figs = <<>>
    /\ calls = <<>>
    /\ MainIdle

Next == Call

Spec == Init /\ [][Next]_vars

\* a session: the caller makes one call after the other
Ask ==
    /\ pending = NoCall
    /\ Len(calls) < MaxCalls
    /\ pending' \in SessionRequests
    /\ UNCHANGED <<figs, calls>>
    /\ UNCHANGED mainvars

InitSession ==
    /\ pending = NoCall
    /\ figs = <<>>
    /\ calls = <<>>
    /\ MainIdle

NextSession == Ask \/ Call

SpecSession == InitSession /\ [][NextSession]_vars

----------------------------------------------------------------------------
(* Reading a call's outcome *)

IsPlot(o) == o.op = "plot"

\* the calls made on the axis of the figure call c worked on
OpsOf(c) == IF c.fig = 0 THEN <<>> ELSE figs[c.fig].ops

CurvesOf(c) == SelectSeq(OpsOf(c), IsPlot)

HasOp(c, names) == \E i \in 1..Len(OpsOf(c)) : OpsOf(c)[i].op \in names

CountOp(c, name) == Cardinality({i \in 1..Len(OpsOf(c)) : OpsOf(c)[i].op = name})

\* the figure was created by the call, and it is the one the call returned
ReturnsItsFigure(c) ==
    /\ c.ret.given
    /\ c.ret.v.fig = c.fig
    /\ c.fig = c.before + 1
    /\ c.fig \in 1..Len(figs)

DictFns == {"plot_nll", "plot_stacked", "plot_limits", "compare_limits"}

DictOf(c) == IF c.fn = "plot_nll" THEN c.args.nll_dict ELSE c.args.sdict

Made(fn) == {i \in 1..Len(calls) : calls[i].fn = fn}

----------------------------------------------------------------------------
(* C1 *)

\* C1, as stated: every plotting function, on a call that completes, sets
\* the axis scale, sets the axis limits, plots one or more curves, adds a
\* legend and returns the figure it created.
C1_AsStated ==
    \A i \in 1..Len(calls) :
        calls[i].ok =>
            /\ HasOp(calls[i], {"set_xscale", "set_yscale"})
            /\ HasOp(calls[i], {"set_xlim", "set_ylim"})
            /\ Len(CurvesOf(calls[i])) >= 1
            /\ HasOp(calls[i], {"legend"})
            /\ ReturnsItsFigure(calls[i])

NoScaleFns == {"plot_comparison", "plot_stacked"}
NoLegendFns == {"plot_castro_nuiscance", "plot_limit"}

ExpectedCurves(c) ==
    CASE c.fn = "plot_castro_nuiscance" -> 0
      [] c.fn = "plot_comparison" -> 2
      [] c.fn = "plot_limit" -> 1
      [] OTHER -> Len(DictOf(c))

\* C1, amended: every plotting function, on a call that completes, creates
\* one new figure, sets the x-axis limits on it and returns it.  The axis
\* scale is set by all but plot_comparison and plot_stacked.  A legend is
\* added (once, as the last call on the axis) by all but
\* plot_castro_nuiscance and plot_limit.  plot_comparison plots two curves,
\* plot_limit one, the dictionary functions one per entry (none for an empty
\* dictionary), plot_castro_nuiscance none: it shows one image.
C1_Amended ==
    \A i \in 1..Len(calls) :
        LET c == calls[i] IN
        c.ok =>
            /\ ReturnsItsFigure(c)
            /\ CountOp(c, "set_xlim") = 1
            /\ HasOp(c, {"set_xscale", "set_yscale"}) <=> c.fn \notin NoScaleFns
            /\ CountOp(c, "legend") = (IF c.fn \in NoLegendFns THEN 0 ELSE 1)
            /\ c.fn \notin NoLegendFns => Last(OpsOf(c)).op = "legend"
            /\ Len(CurvesOf(c)) = ExpectedCurves(c)
            /\ CountOp(c, "imshow") = (IF c.fn = "plot_castro_nuiscance" THEN 1 ELSE 0)

\* C1 witness: a completed plot_limit call (a curve, no legend) and nothing else
C1_Witness ==
    \E i \in 1..Len(calls) :
        /\ calls[i].fn = "plot_limit" /\ calls[i].ok
        /\ Len(CurvesOf(calls[i])) = 1
        /\ ~HasOp(calls[i], {"legend"})

----------------------------------------------------------------------------
(* C2 *)

CollaboratorErrors == {"InterpError", "LimitError"}

\* whether the function's call to the collaborator of item raises
ItemRaises(c, item) ==
    CASE c.fn = "plot_nll" -> item[2].kind = "raise"
      [] c.fn = "plot_stacked" ->
            LET b == IF c.args.ibin.given THEN c.args.ibin.v ELSE 0
            IN  b + 1 \in 1..Len(item[2].bins) /\ item[2].bins[b + 1].kind = "raise"
      [] OTHER -> item[2].lim = "raise"

RaisingItems(c) == {k \in 1..Len(DictOf(c)) : ItemRaises(c, DictOf(c)[k])}

FirstRaising(c) == CHOOSE k \in RaisingItems(c) : \A m \in RaisingItems(c) : k <= m

\* the curves are those of the first n entries, in order
DrewExactly(c, n) ==
    /\ Len(CurvesOf(c)) = n
    /\ \A j \in 1..n : CurvesOf(c)[j].label = Some(DictOf(c)[j][1])

\* C2: if a call to an entry's interp() (plot_nll, plot_stacked) or
\* getLimits() (plot_limits, compare_limits, plot_limit) fails, the plotting
\* function ends with that failure, returns no result, and plots no curve
\* for the failing entry nor for any entry after it.
C2_FailurePropagates ==
    \A i \in 1..Len(calls) :
        LET c == calls[i] IN
        /\ (c.fn \in DictFns /\ c.exc \in CollaboratorErrors) =>
                /\ ~c.ok /\ ~c.ret.given
                /\ RaisingItems(c) # {}
                /\ DrewExactly(c, FirstRaising(c) - 1)
        /\ (c.fn \in DictFns /\ RaisingItems(c) # {}) =>
                /\ ~c.ok /\ ~c.ret.given
                /\ Len(CurvesOf(c)) < FirstRaising(c)
                /\ (Len(CurvesOf(c)) = FirstRaising(c) - 1 /\ c.fig # 0)
                        => c.exc \in CollaboratorErrors
        /\ (c.fn = "plot_limit" /\ c.args.dm_castro_data.lim = "raise") =>
                /\ ~c.ok /\ ~c.ret.given
                /\ c.exc = "LimitError"
                /\ Len(CurvesOf(c)) = 0

\* C2 witness: a dictionary call whose second entry's collaborator failed
\* after the first entry was drawn
C2_Witness ==
    \E i \in 1..Len(calls) :
        /\ calls[i].fn \in {"plot_nll", "plot_limits"}
        /\ calls[i].exc \in CollaboratorErrors
        /\ ~calls[i].ret.given
        /\ Len(DictOf(calls[i])) = 2
        /\ FirstRaising(calls[i]) = 2
        /\ Len(CurvesOf(calls[i])) = 1

----------------------------------------------------------------------------
(* C3 *)

StatelessFns ==
    {"plot_nll", "plot_stacked", "plot_limits", "compare_limits", "plot_limit",
     "plot_comparison"}

\* C3: the plotting functions keep no state between calls: two calls of a
\* session with equal arguments end the same way and draw equal curves (x
\* values, y values, label), whatever was called in between, and every call
\* draws on a figure that the call itself created, shared with no other call.
C3_NoStateBetweenCalls ==
    /\ \A i, j \in 1..Len(calls) :
            (/\ calls[i].fn \in StatelessFns
             /\ calls[i].fn = calls[j].fn
             /\ calls[i].args = calls[j].args) =>
                /\ calls[i].ok = calls[j].ok
                /\ calls[i].exc = calls[j].exc
                /\ CurvesOf(calls[i]) = CurvesOf(calls[j])
    /\ \A i \in 1..Len(calls) :
            (calls[i].fn \in StatelessFns /\ calls[i].fig # 0) =>
                /\ calls[i].fig = calls[i].before + 1
                /\ \A j \in 1..Len(calls) : j # i => calls[j].fig # calls[i].fig

\* C3 witness: plot_limits called twice with the default alpha, with a call
\* of plot_limits with another alpha in between
C3_Witness ==
    /\ Len(calls) >= 3
    /\ calls[1].fn = "plot_limits" /\ calls[1].ok
    /\ calls[2].fn = "plot_limits" /\ calls[2].args # calls[1].args
    /\ calls[3].fn = "plot_limits" /\ calls[3].args = calls[1].args
    /\ Len(CurvesOf(calls[3])) = 2
    /\ CurvesOf(calls[2]) # CurvesOf(calls[1])

----------------------------------------------------------------------------
(* C4 *)

AlphaPassed(c) == IF c.args.alpha.given THEN c.args.alpha.v ELSE 5

LegendAfterCurves(c) ==
    /\ CountOp(c, "legend") = 1
    /\ \A m, n \in 1..Len(OpsOf(c)) :
            (OpsOf(c)[m].op = "plot" /\ OpsOf(c)[n].op = "legend") => m < n

\* C4: a completed plot_limits call draws exactly one curve per entry of
\* sdict, in order, with x = the entry's masses and y = the entry's
\* getLimits(alpha) for the alpha passed (0.05 when omitted), labelled with
\* the key; the line width is 3 exactly when the lower-cased key is
\* "stacked"; the legend is added only after every entry has been drawn.
C4_PlotLimits ==
    \A i \in Made("plot_limits") :
        LET c == calls[i]
            d == c.args.sdict
        IN  c.ok =>
            /\ Len(CurvesOf(c)) = Len(d)
            /\ \A k \in 1..Len(d) :
                    LET curve == CurvesOf(c)[k] IN
                    /\ curve.x = d[k][2].masses
                    /\ curve.y = GetLimits(d[k][2], AlphaPassed(c)).v
                    /\ curve.label = Some(d[k][1])
                    /\ (curve.lw = Some(3)) <=> (Lower(d[k][1]) = STACKED)
                    /\ (curve.lw = None) <=> (Lower(d[k][1]) # STACKED)
            /\ LegendAfterCurves(c)

\* C4 witness: a completed call with alpha 0.32 that drew "Stacked" with
\* line width 3 and "draco" with the default width
C4_Witness ==
    \E i \in Made("plot_limits") :
        /\ calls[i].ok
        /\ calls[i].args.alpha = Some(32)
        /\ Len(CurvesOf(calls[i])) = 2
        /\ CurvesOf(calls[i])[1].label = Some(KeyCapStacked)
        /\ CurvesOf(calls[i])[1].lw = Some(3)
        /\ CurvesOf(calls[i])[2].label = Some(KeyDraco)
        /\ CurvesOf(calls[i])[2].lw = None

----------------------------------------------------------------------------
(* C6 *)

NstepPassed(c) == IF c.args.nstep.given THEN c.args.nstep.v ELSE 50

XminPassed(c) == IF c.args.xlims.given THEN c.args.xlims.v[1] ELSE Pow10(<<-28, 1>>)

XmaxPassed(c) == IF c.args.xlims.given THEN c.args.xlims.v[2] ELSE Pow10(<<-24, 1>>)

\* the curve is the entry's interp(xvals) minus the minimum of those values
ShiftedInterp(curve, nll) ==
    LET raw == InterpLog(nll, curve.x).v IN
    /\ Len(curve.y) = Len(raw)
    /\ \E m \in {raw[n] : n \in 1..Len(raw)} :
            /\ \A n \in 1..Len(raw) : m <= raw[n]
            /\ \A n \in 1..Len(raw) : curve.y[n] = raw[n] - m

MinimumZero(y) ==
    /\ \E n \in 1..Len(y) : y[n] = 0
    /\ \A n \in 1..Len(y) : y[n] >= 0

\* the points are evenly spaced exponents between the first and the last
LogSpaced(x) ==
    \A n \in 2..(Len(x) - 1) :
        LET p == Log10(x[n - 1])  q == Log10(x[n])  r == Log10(x[n + 1])
        IN  /\ ~RatLeq(q, p)
            /\ RatEq(<<q[1] * p[2] - p[1] * q[2], q[2] * p[2]>>,
                     <<r[1] * q[2] - q[1] * r[2], r[2] * q[2]>>)

NllCurves(c) ==
    /\ Len(CurvesOf(c)) = Len(c.args.nll_dict)
    /\ \A k \in 1..Len(c.args.nll_dict) :
            LET curve == CurvesOf(c)[k] IN
            /\ curve.label = Some(c.args.nll_dict[k][1])
            /\ ShiftedInterp(curve, c.args.nll_dict[k][2])
            /\ MinimumZero(curve.y)
            /\ Len(curve.x) = NstepPassed(c)
            /\ RatEq(Log10(curve.x[1]), Log10(XminPassed(c)))
            /\ LogSpaced(curve.x)

NllYlims(c) ==
    /\ c.args.ylims.given =>
            /\ CountOp(c, "set_ylim") = 1
            /\ \A n \in 1..Len(OpsOf(c)) :
                    OpsOf(c)[n].op = "set_ylim" =>
                        OpsOf(c)[n].v = <<c.args.ylims.v[1], c.args.ylims.v[2]>>
    /\ ~c.args.ylims.given => CountOp(c, "set_ylim") = 0

\* C6, as stated: a completed plot_nll call draws, for every entry, one curve
\* labelled by its key whose y values are interp(xvals) minus their minimum
\* (minimum 0, nothing negative); xvals has nstep points spanning xmin..xmax
\* (xlims, or 1e-28 and 1e-24); the y limits are set only when ylims is given.
C6_AsStated ==
    \A i \in Made("plot_nll") :
        LET c == calls[i] IN
        c.ok =>
            /\ NllCurves(c)
            /\ \A k \in 1..Len(CurvesOf(c)) :
                    RatEq(Log10(Last(CurvesOf(c)[k].x)), Log10(XmaxPassed(c)))
            /\ NllYlims(c)

\* C6, amended: as stated, but xvals reaches xmax only when nstep >= 2: with
\* nstep = 1 its only point is xmin.
C6_Amended ==
    \A i \in Made("plot_nll") :
        LET c == calls[i] IN
        c.ok =>
            /\ NllCurves(c)
            /\ \A k \in 1..Len(CurvesOf(c)) :
                    IF NstepPassed(c) >= 2
                    THEN RatEq(Log10(Last(CurvesOf(c)[k].x)), Log10(XmaxPassed(c)))
                    ELSE CurvesOf(c)[k].x = <<XminPassed(c)>>
            /\ NllYlims(c)

\* C6 witness: a completed call with two entries, xlims and ylims given and
\* three steps, whose curves were shifted
C6_Witness ==
    \E i \in Made("plot_nll") :
        /\ calls[i].ok
        /\ calls[i].args.xlims.given /\ calls[i].args.ylims.given
        /\ calls[i].args.nstep = Some(3)
        /\ Len(CurvesOf(calls[i])) = 2
        /\ CurvesOf(calls[i])[1].y # InterpLog(calls[i].args.nll_dict[1][2], CurvesOf(calls[i])[1].x).v

----------------------------------------------------------------------------
(* C7 *)

IbinPassed(c) == IF c.args.ibin.given THEN c.args.ibin.v ELSE 0

\* C7: a completed plot_stacked call draws, for every key of sdict, one
\* curve from sdict[key][ibin] (ibin = 0 by default), in order: for a key
\* that lower-cased is "stacked" the interpolated values unshifted with line
\* width 3, for every other key the values minus their minimum, so that the
\* curve has minimum 0; no key is dropped or drawn twice.
C7_PlotStacked ==
    \A i \in Made("plot_stacked") :
        LET c == calls[i]
            d == c.args.sdict
        IN  c.ok =>
            /\ Len(CurvesOf(c)) = Len(d)
            /\ \A k \in 1..Len(d) :
                    LET curve == CurvesOf(c)[k]
                        nll == d[k][2].bins[IbinPassed(c) + 1]
                        raw == Interp(nll, curve.x).v
                    IN  /\ curve.label = Some(d[k][1])
                        /\ IF Lower(d[k][1]) = STACKED
                           THEN curve.y = raw /\ curve.lw = Some(3)
                           ELSE /\ curve.lw = None
                                /\ Len(curve.y) = Len(raw)
                                /\ MinimumZero(curve.y)
                                /\ \A n \in 1..Len(raw) :
                                        curve.y[n] - raw[n] = curve.y[1] - raw[1]

\* C7 witness: a completed call with ibin = 1 that drew "Stacked" unshifted
\* (its minimum is not 0) and "draco" shifted
C7_Witness ==
    \E i \in Made("plot_stacked") :
        /\ calls[i].ok
        /\ calls[i].args.ibin = Some(1)
        /\ Len(CurvesOf(calls[i])) = 2
        /\ CurvesOf(calls[i])[1].label = Some(KeyCapStacked)
        /\ ~MinimumZero(CurvesOf(calls[i])[1].y)
        /\ CurvesOf(calls[i])[2].label = Some(KeyDraco)
        /\ MinimumZero(CurvesOf(calls[i])[2].y)

----------------------------------------------------------------------------
(* dm_plotting.plot_dm_castro *)

CastroDefaultYminExp == -28
CastroDefaultYmaxExp == -22
CastroDefaultNstep == 100

\* the figure is made by sed_plotting.plotCastro_base, which gets the mass
\* range of the castro object as xlims; the result is (fig, ax, im, ...)
plot_dm_castro(fs, castro_dm) ==
    IF Len(castro_dm.masses) = 0 THEN Failed(fs, 0, <<>>, "IndexError")
    ELSE LET f == plt_figure(fs)
             ops0 == f.figs[f.num].ops
             ops1 == Append(ops0,
                        [op |-> "plotCastro_base",
                         xlims |-> <<castro_dm.masses[1], Last(castro_dm.masses)>>,
                         ylims |-> <<Pow10(<<CastroDefaultYminExp, 1>>),
                                     Pow10(<<CastroDefaultYmaxExp, 1>>)>>,
                         xlabel |-> "mchi", ylabel |-> "sigmav",
                         nstep |-> CastroDefaultNstep, zlims |-> None])
         IN  Completed(f.figs, f.num, ops1, "image")

----------------------------------------------------------------------------
(* scripts/plot_castro_dm.main *)

\* the FITS files of the model: the tables (HDUs) each one holds
Files ==
    [ good |-> [MASSES |-> <<1, 4, 16>>, bb |-> "bb table", tautau |-> "tautau table"],
      nomass |-> [bb |-> "bb table"],
      empty |-> [MASSES |-> <<>>, bb |-> "bb table"] ]

Inputs == {"good", "nomass", "empty", "absent"}
Chans == {"bb", "tautau", "zz"}
Outputs == {None, Some(""), Some("out.png"), Some("out.pdf")}

\* the command lines: --chan and --input may be missing, --output is optional
CommandLines ==
    [chan : {None} \cup {Some(c) : c \in Chans},
     input : {None} \cup {Some(f) : f \in Inputs},
     output : Outputs]

\* Table.read(path, hdu=name)
TableRead(path, hdu) ==
    IF path \notin DOMAIN Files THEN Raised("IOError")
    ELSE IF hdu \notin DOMAIN Files[path] THEN Raised("KeyError")
    ELSE Returned(Files[path][hdu])

\* the truth value of args.output: None and the empty string are false
Truthy(opt) == opt.given /\ opt.v # ""

LibIdle == pending = NoCall /\ calls = <<>>

\* parser.parse_args(): exits when a required argument is missing
ParseArgs ==
    /\ mpc = "parse"
    /\ IF margs.v.chan.given /\ margs.v.input.given
       THEN mpc' = "read_masses"
       ELSE mpc' = "exit"
    /\ UNCHANGED <<margs, tab_m, tab_s, dm_castro, dm_plot, saved, mret, figs>>
    /\ UNCHANGED <<pending, calls>>

\* tab_m = Table.read(args.input, hdu="MASSES")
ReadMasses ==
    /\ mpc = "read_masses"
    /\ LET r == TableRead(margs.v.input.v, "MASSES") IN
       IF r.ok THEN tab_m' = Some(r.v) /\ mpc' = "read_chan"
       ELSE tab_m' = tab_m /\ mpc' = "failed"
    /\ UNCHANGED <<margs, tab_s, dm_castro, dm_plot, saved, mret, figs>>
    /\ UNCHANGED <<pending, calls>>

\* tab_s = Table.read(args.input, hdu=args.chan)
ReadChan ==
    /\ mpc = "read_chan"
    /\ LET r == TableRead(margs.v.input.v, margs.v.chan.v) IN
       IF r.ok THEN tab_s' = Some(r.v) /\ mpc' = "create"
       ELSE tab_s' = tab_s /\ mpc' = "failed"
    /\ UNCHANGED <<margs, tab_m, dm_castro, dm_plot, saved, mret, figs>>
    /\ UNCHANGED <<pending, calls>>

\* dm_castro = DMCastroData.create_from_tables(tab_s, tab_m)
CreateCastro ==
    /\ mpc = "create"
    /\ dm_castro' = Some([masses |-> tab_m.v, table |-> tab_s.v])
    /\ mpc' = "plot"
    /\ UNCHANGED <<margs, tab_m, tab_s, dm_plot, saved, mret, figs>>
    /\ UNCHANGED <<pending, calls>>

\* dm_plot = plot_dm_castro(dm_castro)
PlotCastro ==
    /\ mpc = "plot"
    /\ LET r == plot_dm_castro(figs, dm_castro.v) IN
       /\ figs' = r.figs
       /\ IF r.ok THEN dm_plot' = r.ret /\ mpc' = "output"
          ELSE dm_plot' = dm_plot /\ mpc' = "failed"
    /\ UNCHANGED <<margs, tab_m, tab_s, dm_castro, saved, mret>>
    /\ UNCHANGED <<pending, calls>>

\* the branch without its  return None : main goes on to  return dm_plot
SaveAndReturnPlot ==
    /\ mpc = "output"
    /\ Truthy(margs.v.output)
    /\ saved' = Append(saved, <<dm_plot.v.fig, margs.v.output.v>>)
    /\ mret' = dm_plot
    /\ mpc' = "returned"
    /\ UNCHANGED <<margs, tab_m, tab_s, dm_castro, dm_plot, figs>>
    /\ UNCHANGED <<pending, calls>>

\* if args.output: dm_plot[0].savefig(args.output); return None
SaveAndReturn ==
    /\ mpc = "output"
    /\ Truthy(margs.v.output)
    /\ saved' = Append(saved, <<dm_plot.v.fig, margs.v.output.v>>)
    /\ mret' = None
    /\ mpc' = "returned"
    /\ UNCHANGED <<margs, tab_m, tab_s, dm_castro, dm_plot, figs>>
    /\ UNCHANGED <<pending, calls>>

\* return dm_plot
ReturnPlot ==
    /\ mpc = "output"
    /\ ~Truthy(margs.v.output)
    /\ mret' = dm_plot
    /\ mpc' = "returned"
    /\ UNCHANGED <<margs, tab_m, tab_s, dm_castro, dm_plot, saved, figs>>
    /\ UNCHANGED <<pending, calls>>

InitMain ==
    /\ LibIdle
    /\ figs = <<>>
    /\ mpc = "parse"
    /\ margs \in {Some(cl) : cl \in CommandLines}
    /\ tab_m = None /\ tab_s = None /\ dm_castro = None /\ dm_plot = None
    /\ saved = <<>>
    /\ mret = None

NextMain ==
    \/ ParseArgs
    \/ ReadMasses
    \/ ReadChan
    \/ CreateCastro
    \/ PlotCastro
    \/ SaveAndReturn
    \/ ReturnPlot

SpecMain == InitMain /\ [][NextMain]_vars

----------------------------------------------------------------------------
(* C5 *)

OutputGiven == margs.v.output.given /\ margs.v.output.v # ""

OutputAbsent == ~margs.v.output.given

TablesReadAndPlotBuilt == tab_m.given /\ tab_s.given /\ dm_castro.given /\ dm_plot.given

\* C5: once main has read both tables and built the castro plot: with
\* --output given (non-empty) the figure is saved to that path exactly once
\* and main returns None; with --output absent nothing is saved and main
\* returns the result of plot_dm_castro.  A save happens only after both
\* tables were read and the plot was built.
C5_MainSavesOrReturns ==
    /\ Len(saved) <= 1
    /\ saved # <<>> => TablesReadAndPlotBuilt /\ mpc = "returned"
    /\ mret.given => TablesReadAndPlotBuilt /\ mpc = "returned"
    /\ (mpc = "returned" /\ OutputGiven) =>
            /\ TablesReadAndPlotBuilt
            /\ saved = << <<dm_plot.v.fig, margs.v.output.v>> >>
            /\ dm_plot.v.fig \in 1..Len(figs)
            /\ mret = None
    /\ (mpc = "returned" /\ OutputAbsent) =>
            /\ TablesReadAndPlotBuilt
            /\ saved = <<>>
            /\ mret = dm_plot
    /\ (mpc # "returned" /\ mpc # "output") => saved = <<>> /\ mret = None

\* C5 witness: main returned after saving the figure of the castro plot
C5_Witness ==
    /\ mpc = "returned"
    /\ OutputGiven
    /\ saved = << <<1, "out.png">> >>
    /\ tab_m = Some(<<1, 4, 16>>) /\ tab_s = Some("tautau table")

====
